---- MODULE Spec2Model ----
(***************************************************************************)
(* State-machine model of the inference gateway's request handlers         *)
(* (src/src/api/routes.py) and of the Prometheus helpers they call         *)
(* (src/src/monitoring/prometheus_metrics.py).                             *)
(*                                                                         *)
(* One action per HTTP handler.  The handlers are coroutines on one event  *)
(* loop: a handler runs without interruption up to an await that hands     *)
(* control back to the loop.  The only await is predict_api's              *)
(* `await file.read()`, which suspends when the upload was spooled to      *)
(* disk; the rest of that handler is a second action, and any request can  *)
(* be served in between.  The outcome of every external call a handler     *)
(* makes (predictor, metric update, store read or write, alert delivery,   *)
(* connectivity probe) is an input of the step, drawn only where the       *)
(* handler really makes that call.                                         *)
(*                                                                         *)
(* Optional values (Python None / a value) are sequences of length 0 / 1.  *)
(***************************************************************************)
EXTENDS Integers, Sequences, FiniteSets, TLC

VARIABLES
    records,            \* the prediction_feedback table, indexed by id
    metrics,            \* the module-level Prometheus collectors
    alerts,             \* invocations of the Discord alert triggers
    ENABLE_PROMETHEUS,  \* feature flag, fixed at import time
    ENABLE_DISCORD,     \* feature flag, fixed at import time
    predictor_loaded,   \* predictor.is_loaded()
    last_probe,         \* outcome of the previous health probe (history)
    request,            \* the request handled by the last step, with the
                        \* outcomes of the external calls it made
    response,           \* the HTTP response of the last step
    nreq,               \* number of requests answered so far
    suspended           \* the /api/predict requests waiting in
                        \* `await file.read()`

vars == <<records, metrics, alerts, ENABLE_PROMETHEUS, ENABLE_DISCORD,
          predictor_loaded, last_probe, request, response, nreq, suspended>>

\* ------------------------------------------------------------------ bounds

\* Requests received in one behaviour.  Three let an amendment run on a
\* table of two records, and let two amendments of one record follow its
\* creation.
MaxRequests == 3

\* ------------------------------------------------------- values and inputs

None == <<>>
Some(v) == <<v>>

\* Python truthiness of an optional string: None and "" are falsy.
Truthy(opt) == opt # None /\ opt[1] # ""

\* Probabilities are held in hundredths (0.95 is 95).
ProbScale == 100

\* What predictor.predict(image_data) can do: return a label with its
\* confidence and per-class probabilities, or raise.
PredictorOutcomes ==
    { [raised |-> FALSE, prediction |-> "Cat", confidence |-> 95,
       probabilities |-> [cat |-> 95, dog |-> 5], error |-> ""],
      [raised |-> FALSE, prediction |-> "Dog", confidence |-> 80,
       probabilities |-> [cat |-> 20, dog |-> 80], error |-> ""],
      [raised |-> TRUE, prediction |-> "", confidence |-> 0,
       probabilities |-> [cat |-> 0, dog |-> 0], error |-> "predictor failed"] }

\* Threshold of the high-latency alert, in milliseconds.
LatencyThresholdMs == 2000

\* time.perf_counter() differences, in microseconds.
ElapsedUs == {1500, 2500999}

\* Names of uploaded files (an UploadFile parsed from a multipart part
\* always carries the part's filename).
Filenames == {"cat.jpg"}

\* file.content_type: the Content-Type header of the uploaded part, None
\* when the part has none.
ContentTypes == {Some("image/jpeg"), Some("text/plain"), None}

\* file.content_type.startswith('image/'), for a content type that is set
StartsWithImage(content_type) == content_type \in {"image/jpeg"}

\* Values a client can send as user_feedback (any integer is accepted by
\* the form parser) and as user_comment.
FeedbackInputs == {None, Some(0), Some(1), Some(2)}
CommentInputs == {None, Some(""), Some("blurry")}

\* limit query parameter of /api/recent-predictions (10 is the default).
RecentLimits == {1, 10}

\* str(e) of the exceptions raised by the collaborators.
SinkError == "metrics unavailable"
StoreError == "database unavailable"
ReadError == "read failed"

\* The statement of track_prediction that raises, if any.
TrackPredictionFaults == {"none", "prediction_counter.inc", "usage_counter.inc"}

\* ------------------------------------------------------------- Metrics Sink

\* inference_time_histogram.observe(inference_time_ms / 1000); the sum is
\* kept in thousandths of a second.
track_inference_time(m, inference_time_ms) ==
    [m EXCEPT !.inference_time_histogram =
        [count |-> @.count + 1, sum |-> @.sum + inference_time_ms]]

\* feedback_counter.labels(type=feedback_type).inc()
track_feedback(m, feedback_type) ==
    [m EXCEPT !.feedback_counter[feedback_type] = @ + 1]

\* prediction_counter.labels(label=label).inc()
inc_prediction_counter(m, label) ==
    [m EXCEPT !.prediction_counter[label] = @ + 1]

\* usage_counter.inc()
inc_usage_counter(m) == [m EXCEPT !.usage_counter = @ + 1]

\* track_prediction: its two statements, in order.
track_prediction(m, label) ==
    inc_usage_counter(inc_prediction_counter(m, label))

\* database_status_gauge.set(1 if connected else 0)
update_db_status(m, connected) ==
    [m EXCEPT !.database_status_gauge = IF connected THEN 1 ELSE 0]

\* ----------------------------------------------------------- Feedback Store

\* FeedbackService.save_prediction_feedback: builds the row from the
\* keyword arguments, assigns the next id and the creation timestamp, and
\* appends it to the table.
save_prediction_feedback(recs, now, f) ==
    Append(recs,
        [id |-> Len(recs) + 1,
         timestamp |-> now,
         inference_time_ms |-> f.inference_time_ms,
         success |-> f.success,
         prediction_result |-> f.prediction_result,
         proba_cat |-> f.proba_cat,
         proba_dog |-> f.proba_dog,
         rgpd_consent |-> f.rgpd_consent,
         filename |-> f.filename,
         user_feedback |-> f.user_feedback,
         user_comment |-> f.user_comment])

RECURSIVE NewestFirst(_, _)
\* The last n rows of recs, newest first.
NewestFirst(recs, n) ==
    IF n <= 0 \/ recs = <<>> THEN <<>>
    ELSE <<recs[Len(recs)]>> \o NewestFirst(SubSeq(recs, 1, Len(recs) - 1), n - 1)

\* FeedbackService.get_recent_predictions(db, limit)
get_recent_predictions_service(recs, limit) == NewestFirst(recs, limit)

RECURSIVE SumInferenceTime(_)
\* Sum of inference_time_ms over the rows.
SumInferenceTime(recs) ==
    IF recs = <<>> THEN 0
    ELSE recs[1].inference_time_ms + SumInferenceTime(Tail(recs))

\* A rate or an average as the fraction num/den, 0 when there is nothing
\* to divide by.
Ratio(num, den) ==
    IF den = 0 THEN [num |-> 0, den |-> 1] ELSE [num |-> num, den |-> den]

\* FeedbackService.get_statistics(db): the aggregates over the whole
\* table; a feedback of 1 is positive, a feedback of 0 negative.
get_statistics_service(recs) ==
    LET ids == DOMAIN recs
        successes == {i \in ids : recs[i].success}
        positive == {i \in ids : recs[i].user_feedback = Some(1)}
        negative == {i \in ids : recs[i].user_feedback = Some(0)}
    IN  [total_predictions |-> Len(recs),
         avg_inference_time_ms |-> Ratio(SumInferenceTime(recs), Len(recs)),
         success_rate |-> Ratio(100 * Cardinality(successes), Len(recs)),
         satisfaction_rate |->
             Ratio(100 * Cardinality(positive),
                   Cardinality(positive) + Cardinality(negative)),
         predictions_by_class |->
             [c \in {"cat", "dog"} |->
                 Cardinality({i \in successes : recs[i].prediction_result = c})]]

\* -------------------------------------------------------- pure helpers

\* str.lower() on the predictor's labels
Lower(label) ==
    CASE label = "Cat" -> "cat"
      [] label = "Dog" -> "dog"
      [] OTHER -> label

\* int((end_time - start_time) * 1000): microseconds to whole milliseconds
InferenceTimeMs(elapsed_us) == elapsed_us \div 1000

\* result['probabilities'][c] * 100, in the same hundredths
ProbaPercent(p) == p * 100

\* f"{p:.2%}": the percentage with two decimals
FormatPercent(p) ==
    [whole |-> (p * 100) \div ProbScale,
     cents |-> ((p * 10000) \div ProbScale) % 100]

\* Variant of StoredFilename that stores the name whatever the consent.
StoredFilenameAlways(file, rgpd_consent) == Some(file.filename)

\* filename=file.filename if rgpd_consent else None
StoredFilename(file, rgpd_consent) ==
    IF rgpd_consent THEN Some(file.filename) ELSE None

\* keyword arguments of the success-path save (routes.py 234-245)
SuccessFields(file, rgpd_consent, result, inference_time_ms) ==
    [inference_time_ms |-> inference_time_ms,
     success |-> TRUE,
     prediction_result |-> Lower(result.prediction),
     proba_cat |-> ProbaPercent(result.probabilities.cat),
     proba_dog |-> ProbaPercent(result.probabilities.dog),
     rgpd_consent |-> rgpd_consent,
     filename |-> StoredFilename(file, rgpd_consent),
     user_feedback |-> None,
     user_comment |-> None]

\* Variant of FailureFields that stores the failure record as consented.
FailureFieldsConsented(inference_time_ms, e) ==
    [inference_time_ms |-> inference_time_ms,
     success |-> FALSE,
     prediction_result |-> "error",
     proba_cat |-> 0,
     proba_dog |-> 0,
     rgpd_consent |-> TRUE,
     filename |-> None,
     user_feedback |-> None,
     user_comment |-> Some(e)]

\* keyword arguments of the failure-path save (routes.py 268-279)
FailureFields(inference_time_ms, e) ==
    [inference_time_ms |-> inference_time_ms,
     success |-> FALSE,
     prediction_result |-> "error",
     proba_cat |-> 0,
     proba_dog |-> 0,
     rgpd_consent |-> FALSE,
     filename |-> None,
     user_feedback |-> None,
     user_comment |-> Some(e)]

\* "positive" if user_feedback == 1 else "negative"
FeedbackType(user_feedback) ==
    IF user_feedback = 1 THEN "positive" ELSE "negative"

\* ---------------------------------------------------------------- Init

Init ==
    /\ records = <<>>
    /\ metrics = [inference_time_histogram |-> [count |-> 0, sum |-> 0],
                  feedback_counter |-> [positive |-> 0, negative |-> 0],
                  prediction_counter |-> [cat |-> 0, dog |-> 0],
                  usage_counter |-> 0,
                  database_status_gauge |-> 0]
    /\ alerts = [database_disconnected |-> 0, high_latency |-> 0]
    /\ ENABLE_PROMETHEUS \in BOOLEAN
    /\ ENABLE_DISCORD \in BOOLEAN
    /\ predictor_loaded \in BOOLEAN
    /\ last_probe = "none"
    /\ request = [op |-> "none"]
    /\ response = [status |-> 0]
    /\ nreq = 0
    /\ suspended = <<>>

\* A request can arrive: fewer than MaxRequests have been received.  The
\* server itself accepts requests without limit; this only bounds the
\* length of the behaviours explored.
Arrives == nreq + Len(suspended) < MaxRequests

\* A request is answered: one more response, flags and predictor unchanged.
Answered ==
    /\ nreq' = nreq + 1
    /\ UNCHANGED <<ENABLE_PROMETHEUS, ENABLE_DISCORD, predictor_loaded>>

\* A request arrives and its handler runs to the response without
\* suspending.
Handled ==
    /\ Arrives
    /\ Answered
    /\ UNCHANGED suspended

\* ------------------------------------------------------ POST /api/predict

\* The try block of predict_api (routes.py 213-259): the return of
\* file.read(), the predictor call, the metric updates, the store write and
\* the response body, stopping at the first call that raises.  env says
\* which calls raise.  track_prediction is two statements: when the second
\* raises the first has already counted the label.
PredictTry(file, rgpd_consent, env) ==
    LET result == env.result
        ms == InferenceTimeMs(env.elapsed_us)
        unchanged == [exc |-> None, metrics |-> metrics, records |-> records,
                      body |-> None]
    IN  IF env.read_raises
        THEN [unchanged EXCEPT !.exc = Some(ReadError)]
        ELSE IF result.raised
        THEN [unchanged EXCEPT !.exc = Some(result.error)]
        ELSE IF ENABLE_PROMETHEUS
                /\ env.track_prediction_raises = "prediction_counter.inc"
        THEN [unchanged EXCEPT !.exc = Some(SinkError)]
        ELSE IF ENABLE_PROMETHEUS
                /\ env.track_prediction_raises = "usage_counter.inc"
        THEN [unchanged EXCEPT
                 !.exc = Some(SinkError),
                 !.metrics = inc_prediction_counter(metrics,
                                 Lower(result.prediction))]
        ELSE
        LET m1 == IF ENABLE_PROMETHEUS
                  THEN track_prediction(metrics, Lower(result.prediction))
                  ELSE metrics
        IN  IF ENABLE_PROMETHEUS /\ env.track_inference_time_raises
            THEN [unchanged EXCEPT !.exc = Some(SinkError), !.metrics = m1]
            ELSE
            LET m2 == IF ENABLE_PROMETHEUS
                      THEN track_inference_time(m1, ms)
                      ELSE m1
            IN  IF env.save_raises
                THEN [unchanged EXCEPT !.exc = Some(StoreError), !.metrics = m2]
                ELSE
                LET recs == save_prediction_feedback(records, nreq + 1,
                                SuccessFields(file, rgpd_consent, result, ms))
                    feedback_record == recs[Len(recs)]
                IN  [exc |-> None, metrics |-> m2, records |-> recs,
                     body |-> [filename |-> file.filename,
                               prediction |-> result.prediction,
                               confidence |-> FormatPercent(result.confidence),
                               probabilities |->
                                  [cat |-> FormatPercent(result.probabilities.cat),
                                   dog |-> FormatPercent(result.probabilities.dog)],
                               inference_time_ms |-> ms,
                               feedback_id |-> feedback_record.id]]

\* Variant of PredictExcept that forgets the audit write.
PredictExceptNoAudit(recs, e, env) == recs

\* The except block of predict_api (routes.py 261-283): the records after
\* the best-effort failure write.
PredictExcept(recs, e, env) ==
    IF env.save_failure_raises
    THEN recs
    ELSE save_prediction_feedback(recs, nreq + 1,
             FailureFields(InferenceTimeMs(env.elapsed_except_us), e))

\* predict_api from the return of file.read() (or its exception) to the
\* response (routes.py 215-283): the try block, then on an exception the
\* except block.
PredictRun(file, rgpd_consent, env) ==
    /\ Answered
    /\ request' = [op |-> "predict", file |-> file,
                   rgpd_consent |-> rgpd_consent, env |-> env]
    /\ UNCHANGED <<alerts, last_probe>>
    /\ LET r == PredictTry(file, rgpd_consent, env)
       IN  IF r.exc = None
           THEN /\ records' = r.records
                /\ metrics' = r.metrics
                /\ response' = [status |-> 200, body |-> r.body]
           ELSE /\ records' = PredictExcept(r.records, r.exc[1], env)
                /\ metrics' = r.metrics
                /\ response' = [status |-> 500,
                                detail |-> "Erreur de prédiction: " \o r.exc[1]]

\* The request passes the checks of routes.py 201-206.
Preflight(file) ==
    /\ predictor_loaded
    /\ file.content_type # None
    /\ StartsWithImage(file.content_type[1])

\* A request answered by the checks of routes.py 201-206: 503 without a
\* model, 400 for a content type that is not an image; with no content
\* type at all, None.startswith raises AttributeError outside the try
\* block and the server answers its plain 500.
PreflightResponse(file) ==
    IF ~predictor_loaded
    THEN [status |-> 503, detail |-> "Modèle non disponible"]
    ELSE IF file.content_type = None
    THEN [status |-> 500, detail |-> "Internal Server Error"]
    ELSE [status |-> 400, detail |-> "Format d'image invalide"]

\* predict_api from the arrival of the request to its response or, when
\* the upload was spooled to disk, to the suspension in `await file.read()`
\* (routes.py 215), where the request waits with its arguments.
predict_api(file, rgpd_consent, env) ==
    /\ Arrives
    /\ IF ~Preflight(file)
       THEN /\ Answered
            /\ request' = [op |-> "predict", file |-> file,
                           rgpd_consent |-> rgpd_consent, env |-> env]
            /\ response' = PreflightResponse(file)
            /\ UNCHANGED <<records, metrics, alerts, last_probe, suspended>>
       ELSE IF ~file.in_memory
       THEN /\ suspended' = Append(suspended,
                                [file |-> file, rgpd_consent |-> rgpd_consent])
            /\ UNCHANGED <<records, metrics, alerts, ENABLE_PROMETHEUS,
                           ENABLE_DISCORD, predictor_loaded, last_probe,
                           request, response, nreq>>
       ELSE /\ PredictRun(file, rgpd_consent, env)
            /\ UNCHANGED suspended

\* The k-th waiting request is resumed: file.read() returns and the
\* handler runs to its response.
predict_api_resume(k, env) ==
    /\ k \in DOMAIN suspended
    /\ suspended' = SubSeq(suspended, 1, k - 1)
                        \o SubSeq(suspended, k + 1, Len(suspended))
    /\ PredictRun(suspended[k].file, suspended[k].rgpd_consent, env)

\* The outcomes of the external calls of one /api/predict step; run says
\* whether the step reaches the try block past file.read(), prometheus is
\* the ENABLE_PROMETHEUS flag.  A call the handler does not reach has no
\* outcome to choose (for the predictor the field then holds the raising
\* outcome, which nothing reads).  The clock is read a second time in the
\* except block, so the second reading differs from the first only when
\* both are used (a label was returned, the first reading was observed,
\* and the store write raised).
PredictEnvTable ==
    [run \in BOOLEAN, prometheus \in BOOLEAN |->
        { env \in [read_raises : BOOLEAN,
                   result : PredictorOutcomes,
                   elapsed_us : ElapsedUs,
                   elapsed_except_us : ElapsedUs,
                   track_prediction_raises : TrackPredictionFaults,
                   track_inference_time_raises : BOOLEAN,
                   save_raises : BOOLEAN,
                   save_failure_raises : BOOLEAN] :
            LET called == run /\ ~env.read_raises
                labelled == called /\ ~env.result.raised
                tp == labelled /\ prometheus
                tp_raises == env.track_prediction_raises # "none"
                ti == tp /\ ~tp_raises
                sv == labelled /\ ~tp_raises
                               /\ ~env.track_inference_time_raises
                failed == run /\ (env.read_raises \/ env.result.raised
                                  \/ tp_raises
                                  \/ env.track_inference_time_raises
                                  \/ env.save_raises)
            IN  /\ (~run => ~env.read_raises)
                /\ (~called => env.result.raised)
                /\ (~run => \A u \in ElapsedUs : env.elapsed_us <= u)
                /\ (~tp => ~tp_raises)
                /\ (~ti => ~env.track_inference_time_raises)
                /\ (~sv => ~env.save_raises)
                /\ (~failed => ~env.save_failure_raises)
                /\ env.elapsed_except_us >= env.elapsed_us
                /\ (~(env.save_raises /\ prometheus) =>
                        env.elapsed_except_us = env.elapsed_us) } ]

PredictEnvs(run) == PredictEnvTable[run, ENABLE_PROMETHEUS]

\* An upload: the part's content type and filename, and whether Starlette
\* kept it in memory (a read of an upload spooled to disk goes to the
\* thread pool).  Nothing reads in_memory when the checks reject the upload.
Uploads ==
    { file \in [content_type : ContentTypes, filename : Filenames,
                in_memory : BOOLEAN] :
        ~Preflight(file) => file.in_memory }

Predict ==
    /\ Arrives
    /\ \E file \in Uploads, rgpd_consent \in BOOLEAN :
        \E env \in PredictEnvs(Preflight(file) /\ file.in_memory) :
            predict_api(file, rgpd_consent, env)

PredictResume ==
    \E k \in DOMAIN suspended :
        \E env \in PredictEnvs(TRUE) : predict_api_resume(k, env)

\* ----------------------------------------------- POST /api/update-feedback

\* Variant of ConsentDenied that lets every record through.
ConsentDeniedNever(record) == FALSE

\* if not record.rgpd_consent: raise HTTPException(403) (routes.py 330-334)
ConsentDenied(record) == ~record.rgpd_consent

\* if user_feedback is not None: record.user_feedback = user_feedback
SetFeedback(record, user_feedback) ==
    IF user_feedback # None
    THEN [record EXCEPT !.user_feedback = user_feedback]
    ELSE record

\* Variant of SetComment that assigns the comment to the wrong column.
SetCommentWrongColumn(record, user_comment) ==
    IF Truthy(user_comment)
    THEN [record EXCEPT !.filename = user_comment]
    ELSE record

\* Variant of SetComment without the `if user_comment:` test: the column
\* is assigned whatever the request carried, None included.
SetCommentUnconditional(record, user_comment) ==
    [record EXCEPT !.user_comment = user_comment]

\* if user_comment: record.user_comment = user_comment
SetComment(record, user_comment) ==
    IF Truthy(user_comment)
    THEN [record EXCEPT !.user_comment = user_comment]
    ELSE record

\* update_feedback (routes.py 317-355).  The handler reads the row, sets
\* the supplied fields on it and commits; an exception other than the 404
\* and 403 it raises itself (from the query, from track_feedback or from
\* the commit) rolls the session back and becomes a 500.
update_feedback(feedback_id, user_feedback, user_comment, env) ==
    /\ Handled
    /\ request' = [op |-> "feedback", feedback_id |-> feedback_id,
                   user_feedback |-> user_feedback,
                   user_comment |-> user_comment, env |-> env]
    /\ UNCHANGED <<alerts, last_probe>>
    /\ IF env.query_raises
       THEN \* the SELECT raised: rollback, 500
            /\ response' = [status |-> 500,
                            detail |-> "Erreur lors de la mise à jour: " \o StoreError]
            /\ UNCHANGED <<records, metrics>>
       ELSE IF feedback_id \notin DOMAIN records
       THEN /\ response' = [status |-> 404,
                            detail |-> "Enregistrement de feedback non trouvé"]
            /\ UNCHANGED <<records, metrics>>
       ELSE IF ConsentDenied(records[feedback_id])
       THEN /\ response' = [status |-> 403,
                            detail |-> "Consentement RGPD non accepté. Impossible de stocker le feedback."]
            /\ UNCHANGED <<records, metrics>>
       ELSE
       LET tracked == user_feedback # None /\ ENABLE_PROMETHEUS
           r1 == SetFeedback(records[feedback_id], user_feedback)
       IN  IF tracked /\ env.track_feedback_raises
           THEN \* track_feedback raised: rollback, 500
                /\ response' = [status |-> 500,
                                detail |-> "Erreur lors de la mise à jour: " \o SinkError]
                /\ UNCHANGED <<records, metrics>>
           ELSE
           LET m1 == IF tracked
                     THEN track_feedback(metrics, FeedbackType(user_feedback[1]))
                     ELSE metrics
               r2 == SetComment(r1, user_comment)
           IN  /\ metrics' = m1
               /\ IF env.commit_raises
                  THEN \* db.commit() raised: rollback, 500
                       /\ response' = [status |-> 500,
                                       detail |-> "Erreur lors de la mise à jour: " \o StoreError]
                       /\ UNCHANGED records
                  ELSE /\ records' = [records EXCEPT ![feedback_id] = r2]
                       /\ response' = [status |-> 200, body |-> None]

\* The outcomes of the external calls of one /api/update-feedback request:
\* none raises, or the first call to raise is the query, track_feedback
\* (when the handler calls it) or the commit (when the handler reaches it).
FeedbackEnvs(feedback_id, user_feedback) ==
    LET applies == /\ feedback_id \in DOMAIN records
                   /\ ~ConsentDenied(records[feedback_id])
        tracked == applies /\ user_feedback # None /\ ENABLE_PROMETHEUS
        none == [query_raises |-> FALSE, track_feedback_raises |-> FALSE,
                 commit_raises |-> FALSE]
    IN  {none, [none EXCEPT !.query_raises = TRUE]}
            \cup (IF tracked
                  THEN {[none EXCEPT !.track_feedback_raises = TRUE]} ELSE {})
            \cup (IF applies
                  THEN {[none EXCEPT !.commit_raises = TRUE]} ELSE {})

UpdateFeedback ==
    /\ Arrives
    /\ \E feedback_id \in 1..(Len(records) + 1),
       user_feedback \in FeedbackInputs,
       user_comment \in CommentInputs :
        \E env \in FeedbackEnvs(feedback_id, user_feedback) :
            update_feedback(feedback_id, user_feedback, user_comment, env)

\* ----------------------------------------------------- GET /api/statistics

\* get_statistics (routes.py 372-379).
get_statistics(query_raises) ==
    /\ Handled
    /\ request' = [op |-> "statistics",
                   env |-> [query_raises |-> query_raises]]
    /\ UNCHANGED <<records, metrics, alerts, last_probe>>
    /\ IF query_raises
       THEN response' = [status |-> 500,
                         detail |-> "Erreur lors de la récupération des statistiques: "
                                    \o StoreError]
       ELSE response' = [status |-> 200,
                         body |-> get_statistics_service(records)]

Statistics ==
    /\ Arrives
    /\ \E query_raises \in BOOLEAN : get_statistics(query_raises)

\* ------------------------------------------- GET /api/recent-predictions

\* One entry of the /api/recent-predictions output (routes.py 405-418).
RecentEntry(pred) ==
    [id |-> pred.id,
     timestamp |-> pred.timestamp,
     prediction_result |-> pred.prediction_result,
     proba_cat |-> pred.proba_cat,
     proba_dog |-> pred.proba_dog,
     inference_time_ms |-> pred.inference_time_ms,
     success |-> pred.success,
     rgpd_consent |-> pred.rgpd_consent,
     user_feedback |-> pred.user_feedback,
     filename |-> IF pred.rgpd_consent THEN pred.filename ELSE None]

get_recent_predictions(limit, query_raises) ==
    /\ Handled
    /\ request' = [op |-> "recent", limit |-> limit,
                   env |-> [query_raises |-> query_raises]]
    /\ UNCHANGED <<records, metrics, alerts, last_probe>>
    /\ IF query_raises
       THEN response' = [status |-> 500,
                         detail |-> "Erreur lors de la récupération des prédictions: "
                                    \o StoreError]
       ELSE LET predictions == get_recent_predictions_service(records, limit)
                results == [i \in DOMAIN predictions |-> RecentEntry(predictions[i])]
            IN  response' = [status |-> 200,
                             body |-> [predictions |-> results,
                                       count |-> Len(results)]]

RecentPredictions ==
    /\ Arrives
    /\ \E limit \in RecentLimits, query_raises \in BOOLEAN :
        get_recent_predictions(limit, query_raises)

\* ------------------------------------------------------------ GET /health

\* alert_database_disconnected(): one more invocation of the trigger,
\* whether or not the delivery then fails.
alert_database_disconnected(a) ==
    [a EXCEPT !.database_disconnected = @ + 1]

\* Variant of HealthMetrics in which a failed alert delivery escapes its
\* handler and the gauge update is never reached.
HealthMetricsAlertAborts(m, db_connected, env) ==
    IF ENABLE_PROMETHEUS /\ ~env.update_db_status_raises /\ ~env.alert_raises
    THEN update_db_status(m, db_connected)
    ELSE m

\* The Prometheus block of health_check (routes.py 539-545): reached
\* whether or not the alert delivery failed; a raising gauge update is
\* printed and dropped.
HealthMetrics(m, db_connected, env) ==
    IF ENABLE_PROMETHEUS /\ ~env.update_db_status_raises
    THEN update_db_status(m, db_connected)
    ELSE m

\* health_check (routes.py 515-557).
health_check(env) ==
    LET db_connected == ~env.probe_raises
        db_status == IF db_connected THEN "connected"
                     ELSE "error: " \o StoreError
    IN  /\ Handled
        /\ request' = [op |-> "health", env |-> env]
        /\ UNCHANGED records
        /\ last_probe' = IF db_connected THEN "connected" ELSE "disconnected"
        /\ alerts' = IF ~db_connected /\ ENABLE_DISCORD
                     THEN alert_database_disconnected(alerts)
                     ELSE alerts
        /\ metrics' = HealthMetrics(metrics, db_connected, env)
        /\ response' = [status |-> 200,
                        body |-> [status |-> IF db_status = "connected"
                                             THEN "healthy" ELSE "degraded",
                                  model_loaded |-> predictor_loaded,
                                  database |-> db_status,
                                  monitoring |-> [prometheus |-> ENABLE_PROMETHEUS,
                                                  discord |-> ENABLE_DISCORD]]]

\* The outcomes of the external calls of one /health request.
HealthEnvs ==
    { env \in [probe_raises : BOOLEAN, alert_raises : BOOLEAN,
               update_db_status_raises : BOOLEAN] :
        /\ (~(env.probe_raises /\ ENABLE_DISCORD) => ~env.alert_raises)
        /\ (~ENABLE_PROMETHEUS => ~env.update_db_status_raises) }

Health ==
    /\ Arrives
    /\ \E env \in HealthEnvs : health_check(env)

\* ------------------------------------------------------------ specification

Next ==
    \/ Predict
    \/ PredictResume
    \/ UpdateFeedback
    \/ Statistics
    \/ RecentPredictions
    \/ Health

Spec == Init /\ [][Next]_vars

\* ------------------------------------------------- reading the last step

\* The last step was an /api/predict request that passed preflight.
PredictRan ==
    request.op = "predict" /\ Preflight(request.file)

\* The last step was an /api/predict request whose predictor was called
\* and raised.
PredictorRaised ==
    PredictRan /\ ~request.env.read_raises /\ request.env.result.raised

\* The last step was an /api/predict request whose predictor was called
\* and returned a label.
PredictorReturned ==
    PredictRan /\ ~request.env.read_raises /\ ~request.env.result.raised

\* The ids of the records the last step created (a record's timestamp is
\* the number of the request that created it).
Created ==
    IF nreq = 0 THEN {}
    ELSE {i \in DOMAIN records : records[i].timestamp = nreq}

\* The next step is an /api/update-feedback request.
FeedbackStep == nreq' = nreq + 1 /\ request'.op = "feedback"

\* The next step is a /health request.
HealthStep == nreq' = nreq + 1 /\ request'.op = "health"

\* ------------------------------------------------------------------ C1

\* C1: when a /predict request passes preflight and the predictor raises,
\* exactly one record is created, with success=false (none if the
\* failure write itself raises), no success=true record is created, and
\* the caller receives a 500 whose detail carries the predictor's error.
C1_PredictorRaises ==
    PredictorRaised =>
        /\ Cardinality(Created) =
               (IF request.env.save_failure_raises THEN 0 ELSE 1)
        /\ \A i \in Created : ~records[i].success
        /\ response.status = 500
        /\ response.detail =
               "Erreur de prédiction: " \o request.env.result.error

C1_Witness ==
    /\ PredictorRaised
    /\ Cardinality(Created) = 1
    /\ \A i \in Created : ~records[i].success
                          /\ records[i].user_comment = Some("predictor failed")
    /\ response.status = 500

\* ------------------------------------------------------------------ C2

\* C2: a Metrics Sink failure never reaches the caller: a /predict request
\* whose predictor returned a label and none of whose store writes raised
\* is answered 200 and leaves a success=true record, and an amendment of a
\* consented record whose query and commit did not raise is answered 200.
C2_SinkFailureIsolated ==
    /\ (PredictorReturned
            /\ ~request.env.save_raises /\ ~request.env.save_failure_raises) =>
        /\ response.status = 200
        /\ \E i \in Created : records[i].success
    /\ (request.op = "feedback"
            /\ request.feedback_id \in DOMAIN records
            /\ records[request.feedback_id].rgpd_consent
            /\ ~request.env.query_raises
            /\ ~request.env.commit_raises) =>
        response.status = 200

\* ------------------------------------------------------------------ C3

\* Every record with user_feedback set has rgpd_consent=true.
FeedbackImpliesConsent ==
    \A i \in DOMAIN records :
        records[i].user_feedback # None => records[i].rgpd_consent

\* The next step is an amendment of a record stored without consent.
DeniedStep ==
    /\ FeedbackStep
    /\ request'.feedback_id \in DOMAIN records
    /\ ~records[request'.feedback_id].rgpd_consent

\* C3 as stated: amending a record whose rgpd_consent is false is answered
\* 403 whatever the payload and leaves the records and the feedback
\* counters as they were; and every record with user_feedback set has
\* rgpd_consent=true.
C3_AsStated ==
    /\ []FeedbackImpliesConsent
    /\ [][DeniedStep =>
            /\ response'.status = 403
            /\ records' = records
            /\ metrics'.feedback_counter = metrics.feedback_counter]_vars

\* C3 amended: amending a record whose rgpd_consent is false is answered
\* 403 whatever the payload, or 500 when the query for the record itself
\* raises, and in both cases leaves the records and the feedback counters
\* as they were; and every record with user_feedback set has
\* rgpd_consent=true.
C3_ConsentDenied ==
    /\ []FeedbackImpliesConsent
    /\ [][DeniedStep =>
            /\ response'.status =
                   (IF request'.env.query_raises THEN 500 ELSE 403)
            /\ records' = records
            /\ metrics'.feedback_counter = metrics.feedback_counter]_vars

C3_Witness ==
    /\ request.op = "feedback"
    /\ request.feedback_id \in DOMAIN records
    /\ ~records[request.feedback_id].rgpd_consent
    /\ records[request.feedback_id].success
    /\ request.user_feedback = Some(1)
    /\ request.user_comment = Some("blurry")
    /\ ~request.env.query_raises
    /\ response.status = 403

\* ------------------------------------------------------------------ C4

\* C4: the feedback counter moves only after the amendment has been
\* applied: an amendment answered 404, 403 or 500 changes no feedback
\* counter, and a successful one that supplies user_feedback adds one to
\* exactly one counter, 'positive' for 1 and 'negative' otherwise.
C4_CounterAfterCommit ==
    [][FeedbackStep =>
        LET old == metrics.feedback_counter
            new == metrics'.feedback_counter
        IN  /\ response'.status \in {403, 404, 500} => new = old
            /\ (response'.status = 200 /\ request'.user_feedback # None
                    /\ ENABLE_PROMETHEUS) =>
                IF request'.user_feedback = Some(1)
                THEN new = [old EXCEPT !.positive = @ + 1]
                ELSE new = [old EXCEPT !.negative = @ + 1]]_vars

\* ------------------------------------------------------------------ C5

\* C5: with alerting enabled the database-disconnected alert is fired once
\* per transition into the disconnected state: a failed probe that follows
\* a failed probe fires nothing, a failed probe that does not fires once.
C5_AlertOncePerTransition ==
    [][(HealthStep /\ ENABLE_DISCORD /\ request'.env.probe_raises) =>
        alerts'.database_disconnected =
            alerts.database_disconnected
                + (IF last_probe = "disconnected" THEN 0 ELSE 1)]_vars

\* ------------------------------------------------------------------ C6

\* The parts of C6 that do not concern the gauge: a probe is always
\* answered, 'degraded' with an error indicator iff the connectivity probe
\* failed and 'healthy' otherwise, with model_loaded in both cases.
HealthAnswered ==
    /\ response.status = 200
    /\ response.body.status =
           (IF request.env.probe_raises THEN "degraded" ELSE "healthy")
    /\ (request.env.probe_raises <=> response.body.database # "connected")
    /\ response.body.model_loaded = predictor_loaded

\* The gauge value C6 expects after the last probe.
ExpectedGauge == IF request.env.probe_raises THEN 0 ELSE 1

\* C6 as stated: every probe is answered as above and, with metrics
\* enabled, leaves the gauge at 0 after a failed probe and 1 after a
\* successful one.
C6_AsStated ==
    request.op = "health" =>
        /\ HealthAnswered
        /\ ENABLE_PROMETHEUS => metrics.database_status_gauge = ExpectedGauge

\* C6 amended: every probe is answered as above and, with metrics enabled,
\* leaves the gauge at 0 after a failed probe and 1 after a successful one
\* unless the gauge update itself raised, even when the alert delivery
\* failed; a probe whose gauge update raised leaves the gauge at the value
\* it had.
C6_HealthProbe ==
    /\ [](request.op = "health" =>
            /\ HealthAnswered
            /\ (ENABLE_PROMETHEUS /\ ~request.env.update_db_status_raises) =>
                   metrics.database_status_gauge = ExpectedGauge)
    /\ [][(HealthStep /\ request'.env.update_db_status_raises) =>
            metrics'.database_status_gauge =
                metrics.database_status_gauge]_vars

C6_Witness ==
    /\ request.op = "health"
    /\ ENABLE_PROMETHEUS
    /\ request.env.probe_raises
    /\ request.env.alert_raises
    /\ ~request.env.update_db_status_raises
    /\ last_probe = "disconnected"
    /\ metrics.database_status_gauge = 0
    /\ response.body.status = "degraded"

\* ------------------------------------------------------------------ C7

\* C7: a record holds a filename iff it was created with rgpd_consent
\* true, the filename of a record never changes afterwards, and an entry
\* of the /recent-predictions output has a filename iff its rgpd_consent
\* is true.
C7_FilenameConsent ==
    /\ [](\A i \in DOMAIN records :
            records[i].filename # None <=> records[i].rgpd_consent)
    /\ [](request.op = "recent" /\ response.status = 200 =>
            \A k \in DOMAIN response.body.predictions :
                LET entry == response.body.predictions[k]
                IN  /\ entry.filename # None <=> entry.rgpd_consent
                    /\ entry.rgpd_consent = records[entry.id].rgpd_consent)
    /\ [][\A i \in DOMAIN records :
            /\ i \in DOMAIN records'
            /\ records'[i].filename = records[i].filename
            /\ records'[i].rgpd_consent = records[i].rgpd_consent]_vars

C7_Witness ==
    /\ request.op = "recent"
    /\ response.status = 200
    /\ response.body.count = 1
    /\ response.body.predictions[1].rgpd_consent
    /\ response.body.predictions[1].filename = Some("cat.jpg")

\* ------------------------------------------------------------------ C8

\* C8: every record has prediction_result 'error' iff success=false and
\* otherwise 'cat' or 'dog', with both probabilities 0 when success=false;
\* and success is true iff the predictor produced a label: a request whose
\* predictor returned a label creates no success=false record.
C8_SuccessIffLabel ==
    /\ \A i \in DOMAIN records :
        /\ records[i].prediction_result = "error" <=> ~records[i].success
        /\ records[i].success => records[i].prediction_result \in {"cat", "dog"}
        /\ ~records[i].success =>
               records[i].proba_cat = 0 /\ records[i].proba_dog = 0
    /\ PredictRan =>
        \A i \in Created : records[i].success <=> PredictorReturned

\* ------------------------------------------------------------------ C9

\* C9: with alerting enabled, a /predict request whose predictor returned
\* and whose inference_time_ms exceeds the latency threshold triggers the
\* high-latency alert before it is answered.
C9_HighLatencyAlert ==
    (PredictorReturned /\ ENABLE_DISCORD
        /\ InferenceTimeMs(request.env.elapsed_us) > LatencyThresholdMs) =>
            alerts.high_latency > 0

\* ------------------------------------------------------------------ C10

\* C10: an amendment of a consented record that supplies a user_feedback
\* other than 0 or 1 is answered 400 (once the record has been read), and
\* a stored user_feedback is absent, 0 or 1.
C10_FeedbackRange ==
    /\ (request.op = "feedback"
            /\ request.feedback_id \in DOMAIN records
            /\ records[request.feedback_id].rgpd_consent
            /\ ~request.env.query_raises
            /\ request.user_feedback \notin {None, Some(0), Some(1)}) =>
        response.status = 400
    /\ \A i \in DOMAIN records :
        records[i].user_feedback \in {None, Some(0), Some(1)}

\* ------------------------------------------------------------------ C11

\* update_feedback has no await, so on the event loop the read of the row
\* (routes.py 320-322), the assignments (336-343) and db.commit() (346) of
\* one amendment are one step: of two amendments of the same record one
\* runs wholly before the other, in either order, and only a predict_api
\* suspended in `await file.read()` can have its two halves around them.

\* The next step is an amendment that committed.
AmendmentCommitted == FeedbackStep /\ response'.status = 200

CreationFields(r) ==
    [id |-> r.id, timestamp |-> r.timestamp, success |-> r.success,
     prediction_result |-> r.prediction_result,
     proba_cat |-> r.proba_cat, proba_dog |-> r.proba_dog,
     inference_time_ms |-> r.inference_time_ms,
     rgpd_consent |-> r.rgpd_consent, filename |-> r.filename]

\* C12: over any sequence of predict, amendment, statistics,
\* recent-predictions and health requests every record stays in the table
\* with the id, timestamp, success, prediction_result, probabilities,
\* inference_time_ms, rgpd_consent and filename it was created with; an
\* amendment changes nothing but user_feedback and user_comment of the
\* record it targets; the read-only requests change no record; and no two
\* records share an id.
C12_RecordFrame ==
    /\ [](\A i, j \in DOMAIN records :
            i # j => records[i].id # records[j].id)
    /\ [][\A i \in DOMAIN records :
            /\ i \in DOMAIN records'
            /\ CreationFields(records'[i]) = CreationFields(records[i])]_vars
    /\ [][FeedbackStep =>
            /\ DOMAIN records' = DOMAIN records
            /\ \A i \in DOMAIN records :
                i # request'.feedback_id => records'[i] = records[i]]_vars
    /\ [][(nreq' = nreq + 1
            /\ request'.op \in {"statistics", "recent", "health"}) =>
                records' = records]_vars

\* An amendment committed on one record of a table of two; the other
\* record, which consented too, is as it was created.
C12_Witness ==
    /\ request.op = "feedback"
    /\ response.status = 200
    /\ request.user_feedback = Some(1)
    /\ request.user_comment = Some("blurry")
    /\ records[request.feedback_id].user_feedback = Some(1)
    /\ records[request.feedback_id].user_comment = Some("blurry")
    /\ records[request.feedback_id].filename = Some("cat.jpg")
    /\ records[request.feedback_id].id = request.feedback_id
    /\ Len(records) = 2
    /\ \A i \in DOMAIN records :
        i # request.feedback_id =>
            /\ records[i].rgpd_consent
            /\ records[i].success
            /\ records[i].user_feedback = None
            /\ records[i].user_comment = None

\* ------------------------------------------------------------------ C13

\* A record with success=false has rgpd_consent=false, no filename and
\* no user_feedback, and holds an error text as user_comment.
FailureRecordShape ==
    \A i \in DOMAIN records :
        ~records[i].success =>
            /\ ~records[i].rgpd_consent
            /\ records[i].filename = None
            /\ records[i].user_feedback = None
            /\ records[i].user_comment # None

\* The failure record a /predict request has just written holds the error
\* text the caller was answered with.
FailureRecordText ==
    PredictRan =>
        \A i \in Created :
            ~records[i].success =>
                response.detail =
                    "Erreur de prédiction: " \o records[i].user_comment[1]

\* The user_comment of a success=false record does not change.
FailureCommentKept ==
    \A i \in DOMAIN records :
        ~records[i].success =>
            records'[i].user_comment = records[i].user_comment

\* The next step is an amendment of a success=false record.
FailureAmendStep ==
    /\ FeedbackStep
    /\ request'.feedback_id \in DOMAIN records
    /\ ~records[request'.feedback_id].success

\* C13 as stated: a record written on the failure path has
\* rgpd_consent=false and no filename whatever consent flag the caller
\* submitted, every amendment of it is answered 403, and a record with
\* success=false has no user_feedback and keeps as user_comment the error
\* text it was created with.
C13_AsStated ==
    /\ []FailureRecordShape
    /\ []FailureRecordText
    /\ [][FailureCommentKept]_vars
    /\ [][FailureAmendStep => response'.status = 403]_vars

\* C13 amended: as stated, except that an amendment of a failure record is
\* answered 403, or 500 when the query for the record itself raises; in
\* both cases it is not applied.
C13_FailureRecordsFrozen ==
    /\ []FailureRecordShape
    /\ []FailureRecordText
    /\ [][FailureCommentKept]_vars
    /\ [][FailureAmendStep =>
            /\ response'.status =
                   (IF request'.env.query_raises THEN 500 ELSE 403)
            /\ records' = records]_vars

C13_Witness ==
    /\ request.op = "feedback"
    /\ request.feedback_id \in DOMAIN records
    /\ ~records[request.feedback_id].success
    /\ records[request.feedback_id].user_comment = Some("predictor failed")
    /\ records[request.feedback_id].user_feedback = None
    /\ request.user_feedback = Some(1)
    /\ ~request.env.query_raises
    /\ response.status = 403

====
